---------------------------- MODULE Spec2Model ----------------------------
(***************************************************************************)
(* Order service of src/app.py: the validator (sanitize_string,            *)
(* validate_number, validate_order_data), the bootstrap (init_database,    *)
(* the __main__ guard) and the three request handlers (get_orders,         *)
(* get_order, create_order) over the orders table.                         *)
(*                                                                         *)
(* Representation.                                                         *)
(*   - A Python str is a sequence of one-character strings.                *)
(*   - An untyped JSON/Python value is a record [t, s, n]: t is the type   *)
(*     ("str", "int", "bool", "float", "inf", "nan", "null", "list"), s    *)
(*     the characters of a str, n the integer of an int or bool, or the    *)
(*     thousandths ("mills") of a finite float.                            *)
(*   - A converted number is a record [k, v]: k is "fin", "inf" or "nan"   *)
(*     and v the integer value (units, mills or cents, as stated).         *)
(*   - total_price after round(num, 2) is an integer number of cents.      *)
(*   - A message is a sequence of text pieces, the pieces of the f-string. *)
(***************************************************************************)
EXTENDS Integers, Sequences, FiniteSets, TLC

VARIABLES
    dbExists,   \* os.path.exists(DB_PATH): the file with its orders table
    orders,     \* the rows of table orders, in rowid order
    seq,        \* sqlite_sequence of the AUTOINCREMENT key: largest id ever committed
    now,        \* CURRENT_TIMESTAMP, in whole seconds
    running,    \* the process is serving requests (app.run())
    last,       \* the operation that ran last, its input and its outcome
    created,    \* history: <<order_id, validated record>> of every 201 answer
    vin,        \* validator specification: the input mapping
    vout        \* validator specification: what validate_order_data gave for vin

vars == <<dbExists, orders, seq, now, running, last, created, vin, vout>>

----------------------------------------------------------------------------
(* Bounds of the model. *)

\* whitespace characters put before and after a drawn string
MaxPad == 1
\* characters by which a drawn long string exceeds max_length
MaxOver == 1
\* rows the table may hold
MaxRows == 7
\* seconds the clock may reach
MaxTime == 1
\* characters of a drawn order id
MaxIdLen == 1

----------------------------------------------------------------------------
(* Characters. *)

LowerCase ==
    {"a","b","c","d","e","f","g","h","i","j","k","l","m",
     "n","o","p","q","r","s","t","u","v","w","x","y","z"}

UpperCase ==
    {"A","B","C","D","E","F","G","H","I","J","K","L","M",
     "N","O","P","Q","R","S","T","U","V","W","X","Y","Z"}

DecimalDigits == {"0","1","2","3","4","5","6","7","8","9"}

\* what str.strip() removes and the pattern's \s matches
Whitespace == {" ", "\t"}

\* a character str.isdigit() accepts that is no decimal digit (superscript two)
SuperscriptTwo == "sup2"

DigitValue(c) ==
    CASE c = "0" -> 0 [] c = "1" -> 1 [] c = "2" -> 2 [] c = "3" -> 3
      [] c = "4" -> 4 [] c = "5" -> 5 [] c = "6" -> 6 [] c = "7" -> 7
      [] c = "8" -> 8 [] c = "9" -> 9

----------------------------------------------------------------------------
(* VALIDATION_RULES: max_length and pattern of the string fields, min and  *)
(* max of the numeric fields (total_price in cents), the fixed messages.   *)

VALIDATION_RULES ==
    [customer_name |->
        [max_length |-> 100,
         pattern    |-> LowerCase \cup UpperCase \cup DecimalDigits
                          \cup Whitespace \cup {"."},
         min |-> 0, max |-> 0,
         error_msg  |-> <<"Customer name can only have letters, numbers, spaces and periods">>],
     item_name |->
        [max_length |-> 200,
         pattern    |-> LowerCase \cup UpperCase \cup DecimalDigits
                          \cup Whitespace \cup {"'", "\""},
         min |-> 0, max |-> 0,
         error_msg  |-> <<"Item name can only have letters, numbers, spaces, and quotes">>],
     quantity |->
        [max_length |-> 0, pattern |-> {},
         min |-> 1, max |-> 1000,
         error_msg  |-> <<"Quantity must be between 1 and 1000">>],
     total_price |->
        [max_length |-> 0, pattern |-> {},
         min |-> 1, max |-> 100000000,
         error_msg  |-> <<"Total price must be between 0.01 and 1,000,000.00">>]]

----------------------------------------------------------------------------
(* Values. *)

StrV(s)   == [t |-> "str",   s |-> s,    n |-> 0]
IntV(n)   == [t |-> "int",   s |-> <<>>, n |-> n]
BoolV(n)  == [t |-> "bool",  s |-> <<>>, n |-> n]
FloatV(m) == [t |-> "float", s |-> <<>>, n |-> m]
InfV      == [t |-> "inf",   s |-> <<>>, n |-> 0]
NanV      == [t |-> "nan",   s |-> <<>>, n |-> 0]
NullV     == [t |-> "null",  s |-> <<>>, n |-> 0]
ListV(n)  == [t |-> "list",  s |-> <<>>, n |-> n]

Fin(v) == [k |-> "fin", v |-> v]
Inf    == [k |-> "inf", v |-> 0]
NaN    == [k |-> "nan", v |-> 0]

\* c repeated n times
Rep(c, n) == [i \in 1..n |-> c]

----------------------------------------------------------------------------
(* Python built-ins the validator calls. *)

\* str.lstrip() in place of str.strip(): trailing whitespace kept
StripLeadingOnly(s) ==
    LET inner == {i \in 1..Len(s) : s[i] \notin Whitespace}
    IN  IF inner = {} THEN <<>>
        ELSE SubSeq(s, CHOOSE i \in inner : \A j \in inner : i <= j, Len(s))

\* str.strip(): the value without its leading and trailing whitespace
Strip(s) ==
    LET inner == {i \in 1..Len(s) : s[i] \notin Whitespace}
    IN  IF inner = {} THEN <<>>
        ELSE LET lo == CHOOSE i \in inner : \A j \in inner : i <= j
                 hi == CHOOSE i \in inner : \A j \in inner : j <= i
             IN  SubSeq(s, lo, hi)

\* re.match(pattern, value) for a pattern ^[class]+$: one or more characters,
\* all of the class
ReMatch(class, value) ==
    /\ Len(value) >= 1
    /\ \A i \in 1..Len(value) : value[i] \in class

RECURSIVE DigitsToInt(_)
DigitsToInt(s) ==
    IF s = <<>> THEN 0
    ELSE 10 * DigitsToInt(SubSeq(s, 1, Len(s) - 1)) + DigitValue(s[Len(s)])

AllDecimal(s) == \A i \in 1..Len(s) : s[i] \in DecimalDigits

\* the sign of a numeric literal and the literal without it
SignOf(s)   == IF Len(s) >= 1 /\ s[1] = "-" THEN -1 ELSE 1
Unsigned(s) == IF Len(s) >= 1 /\ s[1] \in {"-", "+"} THEN Tail(s) ELSE s

Raised(exc)   == [exc |-> exc, num |-> NaN]
Returned(num) == [exc |-> "none", num |-> num]

\* int(text) of a str without the whitespace around it: an optional sign and
\* decimal digits
IntOfText(text) ==
    IF Len(Unsigned(text)) >= 1 /\ AllDecimal(Unsigned(text))
    THEN Returned(Fin(SignOf(text) * DigitsToInt(Unsigned(text))))
    ELSE Raised("ValueError")

\* int(value): [exc, num]; exc is the exception raised, "none" when it returns
PyInt(value) ==
    CASE value.t \in {"int", "bool"} -> Returned(Fin(value.n))
      [] value.t = "float" ->
            Returned(Fin(IF value.n >= 0 THEN value.n \div 1000
                         ELSE -((-value.n) \div 1000)))
      [] value.t = "inf" -> Raised("OverflowError")
      [] value.t = "nan" -> Raised("ValueError")
      [] value.t = "str" -> IntOfText(Strip(value.s))
      [] OTHER -> Raised("TypeError")

\* the literal digits: its integer part ip, its fraction fp
MillsOfParts(sign, ip, fp) ==
    IF AllDecimal(ip) /\ AllDecimal(fp) /\ Len(ip) + Len(fp) >= 1 /\ Len(fp) <= 3
    THEN Returned(Fin(sign * (1000 * DigitsToInt(ip)
                              + DigitsToInt(fp \o Rep("0", 3 - Len(fp))))))
    ELSE Raised("ValueError")

\* the unsigned literal u, its decimal points at dots
MillsOfLiteral(sign, u, dots) ==
    IF Cardinality(dots) > 1 THEN Raised("ValueError")
    ELSE IF dots = {} THEN MillsOfParts(sign, u, <<>>)
    ELSE MillsOfParts(sign,
                      SubSeq(u, 1, (CHOOSE i \in dots : TRUE) - 1),
                      SubSeq(u, (CHOOSE i \in dots : TRUE) + 1, Len(u)))

\* float(text) of a str without the whitespace around it, in mills: a
\* decimal literal of at most three fractional digits (the strings the
\* specifications draw hold no exponent and no letters other than a
\* non-numeric one)
FloatOfText(text) ==
    MillsOfLiteral(SignOf(text), Unsigned(text),
                   {i \in 1..Len(Unsigned(text)) : Unsigned(text)[i] = "."})

\* float(value), in mills
PyFloat(value) ==
    CASE value.t \in {"int", "bool"} -> Returned(Fin(1000 * value.n))
      [] value.t = "float" -> Returned(Fin(value.n))
      [] value.t = "inf" -> Returned(Inf)
      [] value.t = "nan" -> Returned(NaN)
      [] value.t = "str" -> FloatOfText(Strip(value.s))
      [] OTHER -> Raised("TypeError")

\* round(num, 2) of a float in mills, in cents: to the nearest cent, an exact
\* tie to the even cent. (A float is a tie only when it is a multiple of 1/8;
\* the specifications draw no other value ending in 5 mills.)
Round2(num) ==
    IF num.k # "fin" THEN num
    ELSE LET q == num.v \div 10
             r == num.v % 10
         IN  Fin(IF r < 5 THEN q
                 ELSE IF r > 5 THEN q + 1
                 ELSE IF q % 2 = 0 THEN q ELSE q + 1)

\* a < b and a > b on floats: every comparison with nan is False
NumLess(a, b) ==
    /\ a.k # "nan"
    /\ a.k = "fin" /\ a.v < b
NumGreater(a, b) ==
    /\ a.k # "nan"
    /\ (a.k = "inf" \/ (a.k = "fin" /\ a.v > b))


----------------------------------------------------------------------------
(* The validator. *)

\* the length check and the pattern check of a stripped value that is not
\* empty: both may add their error
CheckStripped(stripped, field_name, rules) ==
    [isNone |-> FALSE, value |-> stripped,
     errors |->
        (IF Len(stripped) > rules.max_length
         THEN << <<field_name, " cannot exceed ",
                   ToString(rules.max_length), " characters">> >>
         ELSE <<>>)
        \o (IF ~ReMatch(rules.pattern, stripped) THEN <<rules.error_msg>> ELSE <<>>)]

\* sanitize_string after value = value.strip()
SanitizeStripped(stripped, field_name) ==
    IF stripped = <<>>
    THEN [isNone |-> TRUE, value |-> <<>>,
          errors |-> << <<field_name, " cannot be empty">> >>]
    ELSE CheckStripped(stripped, field_name, VALIDATION_RULES[field_name])

\* sanitize_string(value, field_name): (value, errors); isNone when the value
\* returned is None
sanitize_string(value, field_name) ==
    IF value.t # "str"
    THEN [isNone |-> TRUE, value |-> <<>>,
          errors |-> << <<field_name, " should be a string">> >>]
    ELSE SanitizeStripped(Strip(value.s), field_name)

\* validate_number after the conversion conv: the except clause takes
\* ValueError and TypeError only, any other exception leaves the function
CheckNumber(conv, field_name, rules) ==
    IF conv.exc \in {"ValueError", "TypeError"}
    THEN [exc |-> "none", isNone |-> TRUE, value |-> NaN,
          errors |-> << <<"Invalid ", field_name, " format">> >>]
    ELSE IF conv.exc # "none"
    THEN [exc |-> conv.exc, isNone |-> TRUE, value |-> NaN, errors |-> <<>>]
    ELSE IF NumLess(conv.num, rules.min) \/ NumGreater(conv.num, rules.max)
    THEN [exc |-> "none", isNone |-> TRUE, value |-> NaN,
          errors |-> <<rules.error_msg>>]
    ELSE [exc |-> "none", isNone |-> FALSE, value |-> conv.num, errors |-> <<>>]

\* float(value) and then round(num, 2)
FloatRounded(conv) == [exc |-> conv.exc, num |-> Round2(conv.num)]

\* validate_number(value, field_name): (num, errors), or the exception that
\* leaves the function (exc)
validate_number(value, field_name) ==
    CheckNumber(IF field_name = "quantity" THEN PyInt(value)
                ELSE FloatRounded(PyFloat(value)),
                field_name, VALIDATION_RULES[field_name])

required_fields == <<"customer_name", "item_name", "quantity", "total_price">>

\* separator.join(names), as the pieces of the joined text
RECURSIVE Join(_, _)
Join(separator, names) ==
    IF Len(names) = 0 THEN <<>>
    ELSE IF Len(names) = 1 THEN names
    ELSE <<names[1], separator>> \o Join(separator, Tail(names))

\* the dict with no key
EmptyDict == [key \in {} |-> NullV]

\* a request body or validator input: a dict (f: its keys and values) or any
\* other value
DictV(f)   == [t |-> "dict", s |-> <<>>, n |-> 0, f |-> f]
NonDict(v) == [t |-> v.t, s |-> v.s, n |-> v.n, f |-> EmptyDict]

\* data.get(field)
DictGet(data, field) ==
    IF field \in DOMAIN data.f THEN data.f[field] ELSE NullV

\* the first missing field alone, as a check that stops at the first would give
FirstMissingField(data) ==
    LET all == SelectSeq(required_fields, LAMBDA field : field \notin DOMAIN data.f)
    IN  SubSeq(all, 1, 1)

\* [field for field in required_fields if field not in data]
MissingFields(data) ==
    SelectSeq(required_fields, LAMBDA field : field \notin DOMAIN data.f)

\* validated_data[field] = value, when the field gave no error
Validated1(result, field, value) ==
    IF result.errors # <<>> THEN EmptyDict ELSE field :> value

Failure(exc, errors) ==
    [exc |-> exc, isNone |-> TRUE, data |-> EmptyDict, errors |-> errors]

\* the two loops of validate_order_data over the results cn, it, qt, tp of
\* the four fields: an exception of a number field leaves the function, the
\* errors are collected in field order, validated_data is built key by key
Collect(cn, it, qt, tp) ==
    IF qt.exc # "none" THEN Failure(qt.exc, <<>>)
    ELSE IF tp.exc # "none" THEN Failure(tp.exc, <<>>)
    ELSE IF cn.errors \o it.errors \o qt.errors \o tp.errors # <<>>
    THEN Failure("none", cn.errors \o it.errors \o qt.errors \o tp.errors)
    ELSE [exc |-> "none", isNone |-> FALSE, errors |-> <<>>,
          data |-> Validated1(cn, "customer_name", cn.value)
                    @@ Validated1(it, "item_name", it.value)
                    @@ Validated1(qt, "quantity", qt.value.v)
                    @@ Validated1(tp, "total_price", tp.value)]

\* validate_order_data once data is a dict, missing its missing fields
ValidateFields(data, missing) ==
    IF missing # <<>>
    THEN Failure("none", << <<"Missing required fields: ">> \o Join(", ", missing) >>)
    ELSE Collect(sanitize_string(DictGet(data, "customer_name"), "customer_name"),
                 sanitize_string(DictGet(data, "item_name"), "item_name"),
                 validate_number(DictGet(data, "quantity"), "quantity"),
                 validate_number(DictGet(data, "total_price"), "total_price"))

\* validate_order_data(data): (validated_data, errors), or the exception
\* that leaves it (exc)
validate_order_data(data) ==
    IF data.t # "dict"
    THEN Failure("none", << <<"Invalid request format. Expected JSON object">> >>)
    ELSE ValidateFields(data, MissingFields(data))

----------------------------------------------------------------------------
(* The inputs the specifications draw. *)

\* a key the mapping does not hold
Absent == [t |-> "absent", s |-> <<>>, n |-> 0]

\* the dict holding each field whose choice is a value
MakeDict(choice) ==
    DictV([key \in {k \in DOMAIN choice : choice[k] # Absent} |-> choice[key]])

\* strings around max_length, at it and up to MaxOver beyond, and with one
\* character outside both patterns
LongStrings(max_length) ==
    {Rep("A", max_length + d) : d \in (-1)..MaxOver}
      \cup {Rep("A", max_length + d - 1) \o <<"!">> : d \in 0..MaxOver}

ShortStrings ==
    {<<>>, <<"A">>, <<"7">>, <<".">>, <<"'">>, <<"!">>, <<"-">>, <<"A", " ", "b">>}

\* each string with up to MaxPad whitespace characters on either side
Padded(strings) ==
    {Rep(" ", l) \o s \o Rep("\t", r) : s \in strings, l \in 0..MaxPad, r \in 0..MaxPad}

StringInputs(field) ==
    {StrV(s) : s \in Padded(ShortStrings
                              \cup LongStrings(VALIDATION_RULES[field].max_length))}
      \cup {IntV(5), NullV, ListV(0)}

QuantityInputs ==
    {IntV(n) : n \in {-1, 0, 1, 2, 999, 1000, 1001}}
      \cup {BoolV(0), BoolV(1), FloatV(2700), FloatV(999), FloatV(1000900),
            StrV(<<"5">>), StrV(<<" ", "7", " ">>), StrV(<<"-", "3">>),
            StrV(<<"5", ".", "0">>), StrV(<<"x">>), StrV(<<>>),
            NullV, ListV(1), InfV, NanV}

PriceInputs ==
    {FloatV(m) : m \in {-10, 0, 4, 6, 10, 125, 375, 9990, 9994, 9996,
                        1000000000, 1000000004, 1000000006}}
      \cup {IntV(n) : n \in {0, 1, 5, 1000000, 1000001}}
      \cup {BoolV(1), StrV(<<"9", ".", "9", "9">>), StrV(<<".", "5">>),
            StrV(<<"5", ".">>), StrV(<<"1", ".", "2", ".", "3">>),
            StrV(<<"x">>), StrV(<<>>), NullV, ListV(1), InfV, NanV}

Bob    == <<"B", "o", "b">>
Widget == <<"W", "i", "d", "g", "e", "t">>

\* a few choices of each field, a missing key among them
FewChoices ==
    [customer_name |-> {Absent, StrV(Bob), StrV(Bob \o <<"!">>), IntV(5)},
     item_name     |-> {Absent, StrV(Widget), StrV(<<" ">>), StrV(<<"-">>)},
     quantity      |-> {Absent, IntV(1), IntV(0), InfV},
     total_price   |-> {Absent, FloatV(9994), StrV(<<"x">>), NanV}]

ManyChoices ==
    [customer_name |-> StringInputs("customer_name"),
     item_name     |-> StringInputs("item_name"),
     quantity      |-> QuantityInputs,
     total_price   |-> PriceInputs]

Fields == {"customer_name", "item_name", "quantity", "total_price"}

\* the choices of every field: many for the field `wide`, few for the others
Choices(wide) ==
    [customer_name : IF wide = "customer_name" THEN ManyChoices.customer_name
                     ELSE FewChoices.customer_name,
     item_name     : IF wide = "item_name" THEN ManyChoices.item_name
                     ELSE FewChoices.item_name,
     quantity      : IF wide = "quantity" THEN ManyChoices.quantity
                     ELSE FewChoices.quantity,
     total_price   : IF wide = "total_price" THEN ManyChoices.total_price
                     ELSE FewChoices.total_price]

\* the mappings: one field drawn from its many choices and the others from
\* their few; the few choices also with a key that is no field; and values
\* that are no mapping
ValidatorInputs ==
    UNION {{MakeDict(c) : c \in Choices(wide)} : wide \in Fields}
      \cup {DictV(MakeDict(c).f @@ ("note" :> StrV(<<"x">>))) : c \in Choices("none")}
      \cup {NonDict(v) : v \in {NullV, ListV(1), StrV(<<"x">>), IntV(3)}}


----------------------------------------------------------------------------
(* The state after construction: no database file, the process not started. *)

NotValidated ==
    [exc |-> "pending", isNone |-> TRUE, data |-> EmptyDict, errors |-> <<>>]

\* nothing has run yet
NoOperation ==
    [op |-> "none", body |-> NonDict(NullV), order_id |-> <<>>, fault |-> "none",
     decided |-> 0, status |-> 0, key |-> "none", errors |-> <<>>,
     unhandled |-> FALSE,
     opened |-> FALSE, closed |-> FALSE, changed |-> FALSE,
     rows |-> <<>>, id |-> 0, existed |-> FALSE, ranInit |-> FALSE]

StoreInit ==
    /\ dbExists = FALSE
    /\ orders = <<>>
    /\ seq = 0
    /\ now = 0
    /\ running = FALSE
    /\ last = NoOperation
    /\ created = <<>>

----------------------------------------------------------------------------
(* The orders table. A row is [id, customer_name, item_name, quantity,     *)
(* total_price (cents), created_at].                                       *)

\* sample_orders of init_database
sample_orders ==
    << [customer_name |-> <<"K","a","m","r","u","l"," ","I","s","l","a","m">>,
        item_name |-> <<"M","S","I"," ","G","a","m","i","n","g"," ","L","a","p","t","o","p">>,
        quantity |-> 1, total_price |-> 129999],
       [customer_name |-> <<"A","l","i","f">>,
        item_name |-> <<"A","j","a","z","z"," ","A","k","8","7","0"," ","P","r","o"," ","K","e","y","b","a","o","r","d">>,
        quantity |-> 2, total_price |-> 4998],
       [customer_name |-> <<"F","a","t","e","m","a"," ","T","u","z"," ","J","o","h","r","a">>,
        item_name |-> <<"D","a","r","e","u"," ","A","k","9","5","0","P","r","o"," ","G","a","m","i","n","g"," ","M","o","u","s","e">>,
        quantity |-> 1, total_price |-> 5999],
       [customer_name |-> <<"R","i","h","a">>,
        item_name |-> <<"W","a","l","t","o","n"," ","M","o","n","i","t","o","r"," ","2","7"," ","i","n","c","h","e">>,
        quantity |-> 2, total_price |-> 59998],
       [customer_name |-> <<"M","e","h","e","d","i"," ","H","a","s","a","N">>,
        item_name |-> <<"U","S","B","-","C"," ","C","a","b","l","e">>,
        quantity |-> 3, total_price |-> 2997] >>

MaxOf(S) == CHOOSE x \in S : \A y \in S : y <= x

\* id INTEGER PRIMARY KEY AUTOINCREMENT: one more than the largest id the
\* table holds or ever held
NextRowId(rows, sequence) ==
    1 + MaxOf({sequence} \cup {rows[i].id : i \in 1..Len(rows)})

\* INSERT INTO orders (customer_name, item_name, quantity, total_price): the
\* table with one more row, its id and created_at given by the table
InsertRow(rows, sequence, record, timestamp) ==
    Append(rows,
           [id            |-> NextRowId(rows, sequence),
            customer_name |-> record.customer_name,
            item_name     |-> record.item_name,
            quantity      |-> record.quantity,
            total_price   |-> record.total_price,
            created_at    |-> timestamp])

\* cursor.executemany(INSERT ..., records)
RECURSIVE InsertRows(_, _, _, _)
InsertRows(rows, sequence, records, timestamp) ==
    IF records = <<>> THEN rows
    ELSE InsertRows(InsertRow(rows, sequence, Head(records), timestamp),
                    sequence, Tail(records), timestamp)

\* the seed step without its emptiness test
TableAlwaysEmpty(rows) == TRUE

\* SELECT COUNT(*) FROM orders ... == 0
TableIsEmpty(rows) == Len(rows) = 0

\* the table init_database leaves: created if missing, seeded if empty
init_database_rows(rows, sequence, timestamp) ==
    IF TableIsEmpty(rows)
    THEN InsertRows(rows, sequence, sample_orders, timestamp)
    ELSE rows

LargestId(rows, sequence) ==
    MaxOf({sequence} \cup {rows[i].id : i \in 1..Len(rows)})

\* if not os.path.exists(DB_PATH): whether startup runs init_database
StartupRunsInit(exists) == ~exists

----------------------------------------------------------------------------
(* Bootstrap and process life. *)

Outcome(op) == [NoOperation EXCEPT !.op = op]

\* init_database(), run on its own
init_database ==
    /\ dbExists' = TRUE
    /\ orders' = init_database_rows(orders, seq, now)
    /\ seq' = LargestId(orders', seq)
    /\ last' = [Outcome("init_database") EXCEPT
                    !.existed = dbExists, !.ranInit = TRUE,
                    !.changed = (orders' # orders)]
    /\ UNCHANGED <<now, running, created, vin, vout>>

\* python app.py: the __main__ block up to app.run()
main ==
    /\ ~running
    /\ running' = TRUE
    /\ IF StartupRunsInit(dbExists)
       THEN /\ dbExists' = TRUE
            /\ orders' = init_database_rows(orders, seq, now)
            /\ seq' = LargestId(orders', seq)
       ELSE UNCHANGED <<dbExists, orders, seq>>
    /\ last' = [Outcome("main") EXCEPT
                    !.existed = dbExists, !.ranInit = StartupRunsInit(dbExists),
                    !.changed = (orders' # orders)]
    /\ UNCHANGED <<now, created, vin, vout>>

\* the process ends
Stop ==
    /\ running
    /\ running' = FALSE
    /\ last' = Outcome("stop")
    /\ UNCHANGED <<dbExists, orders, seq, now, created, vin, vout>>

\* a second passes
Tick ==
    /\ now < MaxTime
    /\ now' = now + 1
    /\ UNCHANGED <<dbExists, orders, seq, running, last, created, vin, vout>>

----------------------------------------------------------------------------
(* The request handlers. Each takes the fault the storage engine raises in *)
(* it, if any: "connect" (sqlite3.connect), "execute" (cursor.execute),    *)
(* "commit" (conn.commit), or "none".                                      *)

Faults == {"none", "connect", "execute", "commit"}

\* return jsonify(...), status: the answer the handler decides on
Answer(outcome, status, key) ==
    [outcome EXCEPT !.decided = status, !.status = status, !.key = key]

\* finally: conn.close() of get_orders and get_order. conn is a local name
\* bound by sqlite3.connect(...): when that was not reached, or raised, the
\* name is unbound and the statement raises UnboundLocalError, which
\* replaces the answer decided on and leaves the handler (the server answers
\* an unhandled exception with its own 500).
FinallyClose(outcome) ==
    IF outcome.opened
    THEN [outcome EXCEPT !.closed = TRUE]
    ELSE [outcome EXCEPT !.unhandled = TRUE, !.status = 500, !.key = "none"]

\* finally: if conn: conn.close() of create_order, where conn starts as None
FinallyCloseIfConn(outcome) ==
    IF outcome.opened
    THEN [outcome EXCEPT !.closed = TRUE]
    ELSE outcome

\* the row that comes first in the scan of the table: by rowid, upwards, or
\* downwards when the engine scans in reverse
ScansBefore(r1, r2, reverse) ==
    IF reverse THEN r1.id > r2.id ELSE r1.id < r2.id

\* SELECT * FROM orders ORDER BY created_at DESC: the rows by created_at,
\* latest first. The statement gives no second key: rows of one created_at
\* come in the order of the scan, which the engine is free to choose.
OrderByCreatedAtDesc(rows, reverse) ==
    LET n == Len(rows)
        Before(i, j) ==
            \/ rows[i].created_at > rows[j].created_at
            \/ /\ rows[i].created_at = rows[j].created_at
               /\ ScansBefore(rows[i], rows[j], reverse)
        Position(i) == 1 + Cardinality({j \in 1..n : Before(j, i)})
    IN  [p \in 1..n |-> rows[CHOOSE i \in 1..n : Position(i) = p]]

\* GET /orders
get_orders(fault, reverse) ==
    LET start == Outcome("get_orders")
        done ==
            IF fault = "connect"
            THEN Answer([start EXCEPT !.fault = fault], 500, "error")
            ELSE IF fault = "execute"
            THEN Answer([start EXCEPT !.fault = fault, !.opened = TRUE], 500, "error")
            ELSE Answer([start EXCEPT !.opened = TRUE,
                                      !.rows = OrderByCreatedAtDesc(orders, reverse)],
                        200, "orders")
    IN  /\ running
        /\ fault \in {"none", "connect", "execute"}
        /\ fault = "none" \/ ~reverse
        /\ last' = FinallyClose(done)
        /\ UNCHANGED <<dbExists, orders, seq, now, running, created, vin, vout>>

\* order_id.isdigit(): not empty, every character a digit
IsDigit(order_id) ==
    /\ Len(order_id) >= 1
    /\ \A i \in 1..Len(order_id) : order_id[i] \in DecimalDigits \cup {SuperscriptTwo}

\* SELECT * FROM orders WHERE id = ?, the parameter a str: the INTEGER column
\* compares with the integer a decimal text denotes, and with no other text
SelectById(rows, order_id) ==
    SelectSeq(rows, LAMBDA row : AllDecimal(order_id) /\ row.id = DigitsToInt(order_id))

\* GET /orders/<order_id>
get_order(order_id, fault) ==
    LET start == [Outcome("get_order") EXCEPT !.order_id = order_id]
        found == SelectById(orders, order_id)
        done ==
            IF ~IsDigit(order_id)
            THEN Answer(start, 400, "error")
            ELSE IF fault = "connect"
            THEN Answer([start EXCEPT !.fault = fault], 500, "error")
            ELSE IF fault = "execute"
            THEN Answer([start EXCEPT !.fault = fault, !.opened = TRUE], 500, "error")
            ELSE IF found = <<>>
            THEN Answer([start EXCEPT !.opened = TRUE], 404, "error")
            ELSE Answer([start EXCEPT !.opened = TRUE, !.rows = <<Head(found)>>],
                        200, "order")
    IN  /\ running
        /\ fault \in {"none", "connect", "execute"}
        /\ IsDigit(order_id) \/ fault = "none"
        /\ last' = FinallyClose(done)
        /\ UNCHANGED <<dbExists, orders, seq, now, running, created, vin, vout>>

\* not data: None, an empty dict, list or str, a zero
Falsy(data) ==
    CASE data.t = "dict" -> DOMAIN data.f = {}
      [] data.t = "null" -> TRUE
      [] data.t = "str"  -> data.s = <<>>
      [] data.t \in {"int", "bool", "float", "list"} -> data.n = 0
      [] OTHER -> FALSE

\* a float bound to a REAL NOT NULL column: nan is stored as NULL, which the
\* column refuses (sqlite3.IntegrityError)
BindsNull(record) == record.total_price.k = "nan"

\* the two names bound to each other's column
RowValuesSwapped(record) ==
    [customer_name |-> record.item_name,
     item_name     |-> record.customer_name,
     quantity      |-> record.quantity,
     total_price   |-> record.total_price.v]

\* the row values of a validated record, total_price in cents
RowValues(record) ==
    [customer_name |-> record.customer_name,
     item_name     |-> record.item_name,
     quantity      |-> record.quantity,
     total_price   |-> record.total_price.v]

\* POST /orders, data the value request.get_json() gave
create_order(data, fault) ==
    LET start  == [Outcome("create_order") EXCEPT !.body = data]
        result == validate_order_data(data)
        valid  == ~Falsy(data) /\ result.exc = "none" /\ result.errors = <<>>
        failed == IF fault # "none" THEN fault
                  ELSE IF BindsNull(result.data) THEN "execute"
                  ELSE "none"
        done ==
            IF Falsy(data)
            THEN Answer(start, 400, "error")
            ELSE IF result.exc # "none"
            THEN Answer(start, 500, "error")
            ELSE IF result.errors # <<>>
            THEN Answer([start EXCEPT !.errors = result.errors], 400, "errors")
            ELSE IF failed = "connect"
            THEN Answer([start EXCEPT !.fault = failed], 500, "error")
            ELSE IF failed \in {"execute", "commit"}
            THEN Answer([start EXCEPT !.fault = failed, !.opened = TRUE], 500, "error")
            ELSE Answer([start EXCEPT !.opened = TRUE, !.changed = TRUE,
                                      !.id = NextRowId(orders, seq)],
                        201, "created")
    IN  /\ running
        /\ Len(orders) < MaxRows
        /\ fault = "none" \/ valid
        /\ last' = FinallyCloseIfConn(done)
        /\ IF done.status = 201
           THEN /\ orders' = InsertRow(orders, seq, RowValues(result.data), now)
                /\ seq' = LargestId(orders', seq)
                /\ created' = Append(created, <<done.id, result.data>>)
           ELSE UNCHANGED <<orders, seq, created>>
        /\ UNCHANGED <<dbExists, now, running, vin, vout>>

----------------------------------------------------------------------------
(* The requests the specification draws. *)

\* order ids: every text of 1..MaxIdLen characters of these
IdCharacters == {"0", "6", "a", SuperscriptTwo}

RECURSIVE TextsOfLength(_)
TextsOfLength(n) ==
    IF n = 0 THEN {<<>>}
    ELSE {Append(text, c) : text \in TextsOfLength(n - 1), c \in IdCharacters}

OrderIds == UNION {TextsOfLength(n) : n \in 1..MaxIdLen}

\* request bodies: values that are no mapping, the empty mapping, and the
\* mappings of these field values
RequestBodies ==
    {NonDict(v) : v \in {NullV, ListV(0), ListV(1)}}
      \cup {DictV(EmptyDict)}
      \cup {MakeDict(c) :
              c \in [customer_name : {Absent, StrV(<<" ">> \o Bob \o <<"\t">>),
                                      StrV(Bob \o <<"!">>)},
                     item_name     : {StrV(Widget), StrV(<<"U", "S", "B", "-", "C">>)},
                     quantity      : {IntV(2), IntV(0), InfV},
                     total_price   : {FloatV(9994), FloatV(6), NanV}]}

----------------------------------------------------------------------------
(* The service. *)

Init ==
    /\ StoreInit
    /\ vin = NonDict(NullV)
    /\ vout = NotValidated

Next ==
    \/ init_database
    \/ main
    \/ Stop
    \/ Tick
    \/ \E fault \in Faults, reverse \in BOOLEAN : get_orders(fault, reverse)
    \/ \E order_id \in OrderIds, fault \in Faults : get_order(order_id, fault)
    \/ \E data \in RequestBodies, fault \in Faults : create_order(data, fault)

Spec == Init /\ [][Next]_vars

----------------------------------------------------------------------------
(* The validator alone: validate_order_data applied to a drawn input. *)

InitV ==
    /\ StoreInit
    /\ vin \in ValidatorInputs
    /\ vout = NotValidated

Validate ==
    /\ vout = NotValidated
    /\ vout' = validate_order_data(vin)
    /\ UNCHANGED <<dbExists, orders, seq, now, running, last, created, vin>>

NextV == Validate

SpecV == InitV /\ [][NextV]_vars

----------------------------------------------------------------------------
(* The field constraints of the data model, stated on their own. *)

CustomerNameCharacters ==
    LowerCase \cup UpperCase \cup DecimalDigits \cup Whitespace \cup {"."}

ItemNameCharacters ==
    LowerCase \cup UpperCase \cup DecimalDigits \cup Whitespace \cup {"'", "\""}

\* text from its i-th to its j-th character is text without the whitespace
\* around it
TrimBounds(text, i, j) ==
    /\ text[i] \notin Whitespace
    /\ \A k \in 1..(i - 1) : text[k] \in Whitespace
    /\ text[j] \notin Whitespace
    /\ \A k \in (j + 1)..Len(text) : text[k] \in Whitespace

\* out is text without the whitespace around it
IsTrimOf(out, text) ==
    \E i \in 1..Len(text) :
        /\ text[i] \notin Whitespace
        /\ \A k \in 1..(i - 1) : text[k] \in Whitespace
        /\ \E j \in i..Len(text) :
            /\ TrimBounds(text, i, j)
            /\ out = SubSeq(text, i, j)

\* a stored name: trimmed, 1..longest characters, all of them allowed
NameConstraint(name, longest, allowed) ==
    /\ Len(name) \in 1..longest
    /\ name[1] \notin Whitespace
    /\ name[Len(name)] \notin Whitespace
    /\ \A k \in 1..Len(name) : name[k] \in allowed

RowConstraints(row) ==
    /\ NameConstraint(row.customer_name, 100, CustomerNameCharacters)
    /\ NameConstraint(row.item_name, 200, ItemNameCharacters)
    /\ row.quantity \in 1..1000
    /\ row.total_price >= 1
    /\ row.total_price <= 100000000

\* an input name within the field bounds: a str that, trimmed, meets the
\* constraint
NameInput(value, longest, allowed) ==
    /\ value.t = "str"
    /\ \E i \in 1..Len(value.s) :
        /\ value.s[i] \notin Whitespace
        /\ \A k \in 1..(i - 1) : value.s[k] \in Whitespace
        /\ \E j \in i..Len(value.s) :
            /\ TrimBounds(value.s, i, j)
            /\ NameConstraint(SubSeq(value.s, i, j), longest, allowed)

\* an input total_price, in mills, or none when the value is no finite number
PriceMills(value) ==
    CASE value.t = "float" -> {value.n}
      [] value.t = "int"   -> {1000 * value.n}
      [] OTHER -> {}

\* cents is mills rounded to two decimals
IsRounded(cents, mills) ==
    /\ 10 * cents - mills <= 5
    /\ mills - 10 * cents <= 5

HasAllFields(data) == data.t = "dict" /\ Fields \subseteq DOMAIN data.f

\* a mapping with all four fields, each within the field bounds
WithinFieldBounds(data) ==
    /\ HasAllFields(data)
    /\ NameInput(data.f.customer_name, 100, CustomerNameCharacters)
    /\ NameInput(data.f.item_name, 200, ItemNameCharacters)
    /\ data.f.quantity.t = "int"
    /\ data.f.quantity.n \in 1..1000
    /\ \E mills \in PriceMills(data.f.total_price) :
            mills >= 10 /\ mills <= 1000000000

Validated == vout # NotValidated

----------------------------------------------------------------------------
(* Claims about the validator, under SpecV. *)

\* C4: for every input mapping holding all four required fields with values
\* inside the field bounds, validate_order_data returns an empty error list
\* and a record of exactly the four fields: each name the trimmed input,
\* quantity the input integer, total_price the input rounded to 2 decimals.
C4_ValidInputNormalized ==
    (Validated /\ WithinFieldBounds(vin)) =>
        /\ vout.exc = "none"
        /\ vout.errors = <<>>
        /\ ~vout.isNone
        /\ DOMAIN vout.data = Fields
        /\ IsTrimOf(vout.data.customer_name, vin.f.customer_name.s)
        /\ IsTrimOf(vout.data.item_name, vin.f.item_name.s)
        /\ vout.data.quantity = vin.f.quantity.n
        /\ vout.data.total_price.k = "fin"
        /\ \A mills \in PriceMills(vin.f.total_price) :
                IsRounded(vout.data.total_price.v, mills)

\* C4's case: a valid input whose name carries whitespace to trim and whose
\* price has a third decimal to round, validated
C4_Witness ==
    /\ Validated
    /\ WithinFieldBounds(vin)
    /\ vin.f.customer_name.s # vout.data.customer_name
    /\ \E mills \in PriceMills(vin.f.total_price) : mills % 10 # 0

\* the k-th missing required field of data
MissingAt(data, k) ==
    CHOOSE field \in Fields \ DOMAIN data.f :
        \E i \in 1..Len(required_fields) :
            /\ required_fields[i] = field
            /\ Cardinality({j \in 1..(i - 1) :
                              required_fields[j] \notin DOMAIN data.f}) = k - 1

\* C5: for every input mapping in which a required field is absent,
\* validate_order_data returns no record and exactly one error, which lists
\* all and only the missing field names, comma-joined in required-field
\* order; no other error appears, whatever the present fields hold.
C5_MissingFieldsOneError ==
    (Validated /\ vin.t = "dict" /\ ~(Fields \subseteq DOMAIN vin.f)) =>
        LET count == Cardinality(Fields \ DOMAIN vin.f)
        IN  /\ vout.exc = "none"
            /\ vout.isNone
            /\ Len(vout.errors) = 1
            /\ Len(vout.errors[1]) = 2 * count
            /\ vout.errors[1][1] = "Missing required fields: "
            /\ \A k \in 1..count : vout.errors[1][2 * k] = MissingAt(vin, k)
            /\ \A k \in 1..(count - 1) : vout.errors[1][2 * k + 1] = ", "

\* C5's case: two fields missing and a present field invalid, validated
C5_Witness ==
    /\ Validated
    /\ vin.t = "dict"
    /\ Cardinality(Fields \ DOMAIN vin.f) >= 2
    /\ "item_name" \in DOMAIN vin.f
    /\ vin.f.item_name = StrV(<<"-">>)
    /\ Len(vout.errors) = 1

\* C6: with all four required fields present, the error list is exactly the
\* concatenation, in the order customer_name, item_name, quantity,
\* total_price, of the errors each field produces on its own, and the result
\* is (no record, errors) iff that list is non-empty, otherwise (record with
\* all four normalized fields, empty list).
C6_ErrorsConcatenated ==
    (Validated /\ HasAllFields(vin)) =>
        LET each == sanitize_string(vin.f.customer_name, "customer_name").errors
                    \o sanitize_string(vin.f.item_name, "item_name").errors
                    \o validate_number(vin.f.quantity, "quantity").errors
                    \o validate_number(vin.f.total_price, "total_price").errors
        IN  /\ vout.exc = "none"
            /\ vout.errors = each
            /\ vout.isNone <=> (each # <<>>)
            /\ (each = <<>>) => DOMAIN vout.data = Fields

----------------------------------------------------------------------------
(* Claims about the service, under Spec. *)

\* C1: in every reachable state every persisted order row satisfies all
\* field constraints of the data model, the five rows init_database inserts
\* included.
C1_PersistedRowsValid ==
    \A i \in 1..Len(orders) : RowConstraints(orders[i])

\* C2: GET /orders/{id} with an id not made of decimal digits only always
\* gives the malformed-id answer (400), a well-formed id with no matching
\* row always NotFound (404), and neither a 500 or an unhandled exception.
C2_MalformedIdIs400 ==
    (last.op = "get_order" /\ last.fault = "none") =>
        /\ ~AllDecimal(last.order_id) =>
                (last.status = 400 /\ last.key = "error" /\ ~last.unhandled)
        /\ (/\ AllDecimal(last.order_id)
            /\ \A i \in 1..Len(orders) : orders[i].id # DigitsToInt(last.order_id)) =>
                (last.status = 404 /\ last.key = "error" /\ ~last.unhandled)

\* a body the data model accepts: all four fields, the names within their
\* constraints once trimmed, quantity an integer of 1..1000, total_price a
\* finite number that rounds into 0.01..1,000,000.00
AcceptableBody(data) ==
    /\ HasAllFields(data)
    /\ NameInput(data.f.customer_name, 100, CustomerNameCharacters)
    /\ NameInput(data.f.item_name, 200, ItemNameCharacters)
    /\ data.f.quantity.t = "int"
    /\ data.f.quantity.n \in 1..1000
    /\ \E mills \in PriceMills(data.f.total_price) :
        \E cents \in 1..100000000 : IsRounded(cents, mills)

\* C3: every POST /orders whose body is missing, malformed or fails
\* validation is answered 400 with an errors list, opens no storage
\* connection and leaves the persisted orders unchanged.
C3_RejectedPostIs400WithErrors ==
    (last.op = "create_order" /\ ~AcceptableBody(last.body)) =>
        /\ last.status = 400
        /\ last.key = "errors"
        /\ last.errors # <<>>
        /\ ~last.opened
        /\ ~last.changed

\* C7: GET /orders returns all persisted orders by created_at descending,
\* ties broken by id descending (reverse creation order); none on an empty
\* store.
C7_ListNewestFirst ==
    (last.op = "get_orders" /\ last.fault = "none") =>
        /\ last.status = 200
        /\ Len(last.rows) = Len(orders)
        /\ \A i \in 1..Len(orders) : \E p \in 1..Len(last.rows) : last.rows[p] = orders[i]
        /\ \A p \in 1..Len(last.rows) : \A q \in (p + 1)..Len(last.rows) :
                \/ last.rows[p].created_at > last.rows[q].created_at
                \/ /\ last.rows[p].created_at = last.rows[q].created_at
                   /\ last.rows[p].id > last.rows[q].id

\* C8: each request operation releases its connection on every exit path,
\* and the release step never fails or replaces the answer decided on,
\* also where no connection was opened.
C8_ConnectionReleased ==
    (last.op \in {"get_orders", "get_order", "create_order"}) =>
        /\ last.opened => last.closed
        /\ ~last.unhandled
        /\ last.status = last.decided

\* row holds the fields of validated record
RowEqualsRecord(row, record) ==
    /\ row.customer_name = record.customer_name
    /\ row.item_name = record.item_name
    /\ row.quantity = record.quantity
    /\ record.total_price.k = "fin"
    /\ row.total_price = record.total_price.v

\* every order a POST answered 201 for is in the table once, with the
\* validated fields; the ids answered grow; and a GET of such an id that
\* meets no storage fault answers 200 with that order
RoundTripState ==
    /\ \A k \in 1..Len(created) :
            \E i \in 1..Len(orders) :
                /\ orders[i].id = created[k][1]
                /\ RowEqualsRecord(orders[i], created[k][2])
                /\ \A j \in 1..Len(orders) : orders[j].id = created[k][1] => j = i
    /\ \A k \in 1..Len(created) : \A l \in (k + 1)..Len(created) :
            created[k][1] < created[l][1]
    /\ (last.op = "get_order" /\ last.fault = "none" /\ AllDecimal(last.order_id)) =>
            \A k \in 1..Len(created) :
                created[k][1] = DigitsToInt(last.order_id) =>
                    /\ last.status = 200
                    /\ Len(last.rows) = 1
                    /\ last.rows[1].id = created[k][1]
                    /\ RowEqualsRecord(last.rows[1], created[k][2])

\* no step changes or removes a row the table holds
RowsKept ==
    \A i \in 1..Len(orders) : i <= Len(orders') /\ orders'[i] = orders[i]

\* C9: for every POST /orders that succeeded with order_id i for validated
\* record r, every later GET /orders/i returns an order with r's
\* customer_name, item_name, quantity and total_price; ids of distinct
\* successful creates are distinct and strictly increasing; no operation
\* modifies or removes an existing order.
C9_RoundTrip == [] RoundTripState /\ [][RowsKept]_vars

\* C9's case: the first of two created orders, fetched after the second
\* create
C9_Witness ==
    /\ Len(created) = 2
    /\ last.op = "get_order"
    /\ last.status = 200
    /\ last.rows[1].id = created[1][1]
    /\ RowEqualsRecord(last.rows[1], created[1][2])

\* rows no POST created
SeededRows ==
    {i \in 1..Len(orders) : \A k \in 1..Len(created) : created[k][1] # orders[i].id}

\* a bootstrap step: it leaves a table that holds a row as it is, and changes
\* the table only from empty to the five sample orders; startup runs the
\* bootstrap exactly when no database file exists
BootstrapStep ==
    (init_database \/ main) =>
        /\ orders # <<>> => orders' = orders
        /\ orders' # orders =>
                /\ Len(orders') = Len(sample_orders)
                /\ \A i \in 1..Len(sample_orders) :
                        /\ orders'[i].customer_name = sample_orders[i].customer_name
                        /\ orders'[i].item_name = sample_orders[i].item_name
                        /\ orders'[i].quantity = sample_orders[i].quantity
                        /\ orders'[i].total_price = sample_orders[i].total_price
        /\ main => (last'.ranInit <=> ~dbExists)
        /\ (main /\ dbExists) => orders' = orders

\* C10: bootstrap is idempotent: init_database run twice, or on a store that
\* holds an order, leaves the rows of one run; the five seed rows are
\* inserted only into an empty table and never duplicated; startup runs the
\* bootstrap only when no backing store file exists.
C10_BootstrapIdempotent ==
    [] (Cardinality(SeededRows) <= Len(sample_orders)) /\ [][BootstrapStep]_vars

\* C10's case: init_database run again on a store holding the seed rows and
\* a created order
C10_Witness ==
    /\ last.op = "init_database"
    /\ last.existed
    /\ ~last.changed
    /\ Len(orders) > Len(sample_orders)
    /\ Cardinality(SeededRows) = Len(sample_orders)

=============================================================================
